---- MODULE Spec2Model ----
(***************************************************************************)
(* Distance settings of the RC car dashboard: the validation utilities     *)
(* (utils/distanceValidation, single-field and multi-field variants), the  *)
(* useDistanceSettings hook with its localStorage persistence, the         *)
(* DistanceSettingsPanel handlers that drive it, the useMQTT hook and the  *)
(* controls of RCCarController that send commands to the car.              *)
(*                                                                         *)
(* JavaScript values are records [k, v]: k is the kind ("num" a finite     *)
(* number, "nan", "inf" with v = 1 or -1, "undef", "null", "str" a         *)
(* non-numeric string) and v the integer of a finite number.  Distances    *)
(* are whole centimetres.                                                  *)
(***************************************************************************)
EXTENDS Integers, Sequences, FiniteSets, TLC

VARIABLES
    settings,          \* useState settings           (working value)
    savedSettings,     \* useState savedSettings      (persisted value)
    validationErrors,  \* useState validationErrors
    isValid,           \* useState isValid
    storage,           \* localStorage text under STORAGE_KEY
    isConnected,       \* useMQTT isConnected, prop of the panel
    mounted,           \* the panel (and its hook) is mounted
    lastOp,            \* the last handler that ran, its inputs and effects
    written,           \* the last successful localStorage.setItem
    pin,               \* argument handed to the validation utilities
    pout,              \* the utility last applied and its result
    client,            \* useMQTT clientRef.current and the state of that client
    connectionStatus,  \* useMQTT useState connectionStatus
    isAutonomous,      \* RCCarController useState isAutonomous
    activeKeys,        \* RCCarController useState activeKeys
    speedPercent,      \* RCCarController useState speedPercent
    ledPercent,        \* RCCarController useState ledPercent
    lastCmd,           \* the last UI event, its inputs and what it published
    loading,           \* AuthProvider useState loading
    user,              \* AuthProvider useState user
    lastAuth,          \* the last auth event and what it did to the controller
    subs,              \* topics subscribed on the client's current connection
    lastEvent,         \* the last event of the client since the mount
    sent,              \* calls of publish / subscribe handed to the client
    lastCall,          \* the last call of publish / subscribe of useMQTT
    logs,              \* RCCarController useState logs
    clock,             \* the time new Date() reads
    logLoad,           \* loadLogsFromDatabase awaiting its query
    clearing,          \* handleClearLogs: where the call stands
    lastLog            \* the last step that set logs, and the list before it

\* the state of the hook and its panel
hookVars == <<settings, savedSettings, validationErrors, isValid, storage,
              mounted, lastOp, written>>

\* the state of useMQTT and of the controls of RCCarController
ctlVars == <<client, connectionStatus, isAutonomous, activeKeys, speedPercent,
             ledPercent, lastCmd>>

authVars == <<loading, user, lastAuth>>

callVars == <<sent, lastCall>>

logVars == <<logs, clock, logLoad, clearing, lastLog>>

\* authentication, subscriptions, the calls of the hook and the log list
appVars == <<authVars, subs, lastEvent, callVars, logVars>>

vars == <<hookVars, isConnected, pin, pout, ctlVars, appVars>>

----------------------------------------------------------------------------
(* Bounds of the model *)

\* numeric inputs lie within Margin of each anchor value
Margin == 1

----------------------------------------------------------------------------
(* Program constants *)

MIN_ALLOWED == 5
MAX_ALLOWED == 300
\* MIN_SAFE_RATIO is 1.5; kept as tenths so that the arithmetic stays integer
MIN_SAFE_RATIO_TENTHS == 15
\* the fixed repair margin of the multi-field autoCorrectSettings
REPAIR_MARGIN == 10
DEFAULT_MIN_DISTANCE == 15
DEFAULT_SAFE_DISTANCE == 30
DEFAULT_MAX_DISTANCE == 100

----------------------------------------------------------------------------
(* JavaScript values and the operators the code applies to them *)

Num(n) == [k |-> "num", v |-> n]
NaN == [k |-> "nan", v |-> 0]
PosInf == [k |-> "inf", v |-> 1]
NegInf == [k |-> "inf", v |-> -1]
Undefined == [k |-> "undef", v |-> 0]
Null == [k |-> "null", v |-> 0]
Str == [k |-> "str", v |-> 0]

IsNaN(x) == x.k = "nan"
IsFinite(x) == x.k = "num"

\* ToNumber: undefined and a non-numeric string give NaN, null gives 0
ToNumber(x) ==
    CASE x.k \in {"num", "nan", "inf"} -> x
      [] x.k = "null" -> Num(0)
      [] OTHER -> NaN

\* a < b
LessThan(a, b) ==
    LET x == ToNumber(a)
        y == ToNumber(b)
    IN  IF IsNaN(x) \/ IsNaN(y) THEN FALSE
        ELSE IF x.k = "inf" /\ y.k = "inf" THEN x.v < y.v
        ELSE IF x.k = "inf" THEN x.v = -1
        ELSE IF y.k = "inf" THEN y.v = 1
        ELSE x.v < y.v

\* a > b
GreaterThan(a, b) == LessThan(b, a)

\* a <= b
LessEq(a, b) ==
    LET x == ToNumber(a)
        y == ToNumber(b)
    IN  IF IsNaN(x) \/ IsNaN(y) THEN FALSE
        ELSE x = y \/ LessThan(x, y)

\* a >= b
GreaterEq(a, b) == LessEq(b, a)

\* Math.min(a, b): NaN when either argument is NaN
MathMin(a, b) ==
    LET x == ToNumber(a)
        y == ToNumber(b)
    IN  IF IsNaN(x) \/ IsNaN(y) THEN NaN
        ELSE IF LessThan(y, x) THEN y ELSE x

\* Math.max(a, b): NaN when either argument is NaN
MathMax(a, b) ==
    LET x == ToNumber(a)
        y == ToNumber(b)
    IN  IF IsNaN(x) \/ IsNaN(y) THEN NaN
        ELSE IF LessThan(x, y) THEN y ELSE x

\* x + n for a number x and a finite n
Plus(x, n) == IF x.k = "num" THEN Num(x.v + n) ELSE x

\* safe < min * MIN_SAFE_RATIO, both sides scaled by ten
LessThanRatio(safe, min) ==
    LET x == ToNumber(safe)
        y == ToNumber(min)
    IN  IF IsNaN(x) \/ IsNaN(y) THEN FALSE
        ELSE IF x.k = "num" /\ y.k = "num"
             THEN 10 * x.v < MIN_SAFE_RATIO_TENTHS * y.v
        ELSE LessThan(x, y)

\* Math.round(min * MIN_SAFE_RATIO), half rounded up
RoundRatio(min) ==
    IF min.k = "num" THEN Num((MIN_SAFE_RATIO_TENTHS * min.v + 5) \div 10)
    ELSE ToNumber(min)

----------------------------------------------------------------------------
(* types/settings *)

DEFAULT_DISTANCE_SETTINGS == [minDistance |-> Num(DEFAULT_MIN_DISTANCE)]

DEFAULT_DISTANCE_SETTINGS_MULTI ==
    [minDistance |-> Num(DEFAULT_MIN_DISTANCE),
     maxDistance |-> Num(DEFAULT_MAX_DISTANCE),
     safeDistance |-> Num(DEFAULT_SAFE_DISTANCE)]

(* the error messages of validateDistanceSettings; a and b are the numbers
   interpolated into the template *)
MsgMinRange ==
    [text |-> "Jarak minimum harus antara ${MIN_ALLOWED}cm - ${MAX_ALLOWED}cm",
     a |-> Num(MIN_ALLOWED), b |-> Num(MAX_ALLOWED)]
MsgSafeRange ==
    [text |-> "Jarak aman harus antara ${MIN_ALLOWED}cm - ${MAX_ALLOWED}cm",
     a |-> Num(MIN_ALLOWED), b |-> Num(MAX_ALLOWED)]
MsgMinLessSafe ==
    [text |-> "Jarak minimum harus lebih kecil dari jarak aman",
     a |-> Num(0), b |-> Num(0)]
MsgSafeRatio(min) ==
    [text |-> "Jarak aman harus minimal ${MIN_SAFE_RATIO}x jarak minimum (${round}cm)",
     a |-> Num(MIN_SAFE_RATIO_TENTHS), b |-> RoundRatio(min)]

----------------------------------------------------------------------------
(* utils/distanceValidation, single-field variant *)

validateDistanceSettings(s) ==
    LET minDistance == s.minDistance
        errors ==
            IF LessThan(minDistance, Num(MIN_ALLOWED))
                 \/ GreaterThan(minDistance, Num(MAX_ALLOWED))
            THEN <<MsgMinRange>> ELSE <<>>
    IN  [isValid |-> Len(errors) = 0, errors |-> errors]

\* sanitizeDistanceValue without the Math.min against MAX_ALLOWED
sanitizeDistanceValueNoUpper(value) ==
    MathMax(Num(MIN_ALLOWED), value)

sanitizeDistanceValue(value) ==
    MathMax(Num(MIN_ALLOWED), MathMin(Num(MAX_ALLOWED), value))

autoCorrectSettings(s) ==
    [minDistance |-> sanitizeDistanceValue(s.minDistance)]

----------------------------------------------------------------------------
(* utils/distanceValidation, multi-field variant *)

validateDistanceSettingsMulti(s) ==
    LET minDistance == s.minDistance
        safeDistance == s.safeDistance
        e1 == IF LessThan(minDistance, Num(MIN_ALLOWED))
                   \/ GreaterThan(minDistance, Num(MAX_ALLOWED))
              THEN <<MsgMinRange>> ELSE <<>>
        e2 == IF LessThan(safeDistance, Num(MIN_ALLOWED))
                   \/ GreaterThan(safeDistance, Num(MAX_ALLOWED))
              THEN <<MsgSafeRange>> ELSE <<>>
        e3 == IF GreaterEq(minDistance, safeDistance)
              THEN <<MsgMinLessSafe>> ELSE <<>>
        e4 == IF LessThanRatio(safeDistance, minDistance)
              THEN <<MsgSafeRatio(minDistance)>> ELSE <<>>
        errors == e1 \o e2 \o e3 \o e4
    IN  [isValid |-> Len(errors) = 0, errors |-> errors]

sanitizeDistanceValueMulti(value) ==
    MathMax(Num(MIN_ALLOWED), MathMin(Num(MAX_ALLOWED), value))

\* autoCorrectSettings without the repair of the min / safe relation
autoCorrectSettingsMultiNoRepair(s) ==
    [minDistance |-> sanitizeDistanceValueMulti(s.minDistance),
     maxDistance |-> Undefined,
     safeDistance |-> sanitizeDistanceValueMulti(s.safeDistance)]

\* the returned object literal is { minDistance, safeDistance }: it has no
\* maxDistance property, which reads as undefined
autoCorrectSettingsMulti(s) ==
    LET minDistance == sanitizeDistanceValueMulti(s.minDistance)
        safe0 == sanitizeDistanceValueMulti(s.safeDistance)
        safeDistance == IF LessEq(safe0, minDistance)
                        THEN Plus(minDistance, REPAIR_MARGIN)
                        ELSE safe0
    IN  [minDistance |-> minDistance,
         maxDistance |-> Undefined,
         safeDistance |-> safeDistance]

----------------------------------------------------------------------------
(* JSON text of a settings object.  A text is [t, min]: t = "obj" is an
   object literal whose minDistance member parses to min (Undefined: no
   such member); "absent" is no entry under STORAGE_KEY (getItem gives
   null), "empty" the empty string, "garbage" a text JSON.parse rejects,
   "null" the literal null. *)

ObjText(m) == [t |-> "obj", min |-> m]
AbsentText == [t |-> "absent", min |-> Undefined]
EmptyText == [t |-> "empty", min |-> Undefined]
GarbageText == [t |-> "garbage", min |-> Undefined]
NullText == [t |-> "null", min |-> Undefined]

\* JSON.stringify of one member: NaN and the infinities are written as
\* null, an undefined member is left out
JSONmember(x) ==
    CASE x.k = "num" -> x
      [] x.k \in {"nan", "inf"} -> Null
      [] OTHER -> x

JSONstringify(s) == ObjText(JSONmember(s.minDistance))

\* JSON.parse: [threw, isObject, value]
JSONparse(text) ==
    CASE text.t = "obj" ->
           [threw |-> FALSE, isObject |-> TRUE,
            value |-> [minDistance |-> text.min]]
      [] text.t = "null" ->
           [threw |-> FALSE, isObject |-> FALSE,
            value |-> [minDistance |-> Undefined]]
      [] OTHER ->
           [threw |-> TRUE, isObject |-> FALSE,
            value |-> [minDistance |-> Undefined]]

\* parseFloat of the text of the number input: [t, n] with t = "digits"
\* the decimal text of n, "empty" the empty string, "overflow" a literal
\* beyond the double range such as 1e999
parseFloat(text) ==
    CASE text.t = "digits" -> Num(text.n)
      [] text.t = "overflow" -> PosInf
      [] OTHER -> NaN

----------------------------------------------------------------------------
(* Input sets *)

Around(c) == (c - Margin)..(c + Margin)

DistanceNums ==
    Around(0) \cup Around(MIN_ALLOWED) \cup Around(DEFAULT_MIN_DISTANCE)
        \cup Around(MAX_ALLOWED)

InputTexts ==
    {[t |-> "digits", n |-> n] : n \in DistanceNums}
        \cup {[t |-> "empty", n |-> 0], [t |-> "overflow", n |-> 0]}

StoredTexts ==
    {AbsentText, EmptyText, GarbageText, NullText}
        \cup {ObjText(Num(n)) : n \in DistanceNums}
        \cup {ObjText(PosInf), ObjText(Null), ObjText(Undefined), ObjText(Str)}

----------------------------------------------------------------------------
(* App.tsx and useMQTT: the change callback handed to the panel *)

\* useMQTT.publish: dropped unless the client is connected
publish(payload, connected) ==
    IF connected THEN <<[kind |-> "publish", val |-> payload]>> ELSE <<>>

\* a callback that only acknowledges the new settings
handleDistanceSettingsChangeNoPublish(s, connected) ==
    <<[kind |-> "notify", val |-> s]>>

\* the callback closes over the isConnected of the render that made it
handleDistanceSettingsChange(s, connected) ==
    <<[kind |-> "notify", val |-> s]>>
        \o (IF connected
            THEN publish(ObjText(JSONmember(s.minDistance)), connected)
                     \o <<[kind |-> "log", val |-> s]>>
            ELSE <<>>)

----------------------------------------------------------------------------
(* hooks/useDistanceSettings *)

HookState ==
    [settings |-> settings, savedSettings |-> savedSettings,
     validationErrors |-> validationErrors, isValid |-> isValid,
     storage |-> storage]

InitialHookState(text) ==
    [settings |-> DEFAULT_DISTANCE_SETTINGS,
     savedSettings |-> DEFAULT_DISTANCE_SETTINGS,
     validationErrors |-> <<>>, isValid |-> TRUE, storage |-> text]

hasUnsavedChanges == JSONstringify(settings) # JSONstringify(savedSettings)

\* the catch block and the invalid-stored-settings branch of the load effect
loadDefaults(h, connected) ==
    [state |-> [h EXCEPT !.settings = DEFAULT_DISTANCE_SETTINGS,
                         !.savedSettings = DEFAULT_DISTANCE_SETTINGS],
     effects |-> handleDistanceSettingsChange(DEFAULT_DISTANCE_SETTINGS,
                                              connected)]

\* a load that leaves savedSettings as it was
loadStoredKeepSaved(h, correctedSettings, connected) ==
    [state |-> [h EXCEPT !.settings = correctedSettings,
                         !.validationErrors = <<>>,
                         !.isValid = TRUE],
     effects |-> handleDistanceSettingsChange(correctedSettings, connected)]

\* the stored settings pass validation
loadStored(h, correctedSettings, connected) ==
    [state |-> [h EXCEPT !.settings = correctedSettings,
                         !.savedSettings = correctedSettings,
                         !.validationErrors = <<>>,
                         !.isValid = TRUE],
     effects |-> handleDistanceSettingsChange(correctedSettings, connected)]

\* the effect with dependency [onSettingsChange]; readOK = FALSE when
\* localStorage.getItem throws
loadEffect(h, readOK, connected) ==
    IF ~readOK THEN loadDefaults(h, connected)
    ELSE IF h.storage.t \in {"absent", "empty"}
    THEN [state |-> h,
          effects |-> handleDistanceSettingsChange(DEFAULT_DISTANCE_SETTINGS,
                                                   connected)]
    ELSE LET parsed == JSONparse(h.storage)
         IN  IF parsed.threw \/ ~parsed.isObject
             THEN loadDefaults(h, connected)
             ELSE LET correctedSettings == autoCorrectSettings(parsed.value)
                      validation == validateDistanceSettings(correctedSettings)
                  IN  IF validation.isValid
                      THEN loadStored(h, correctedSettings, connected)
                      ELSE loadDefaults(h, connected)

\* an update that moves the persisted value along with the working value
updateSettingsAlsoSaved(h, newMin) ==
    LET updatedSettings == [minDistance |-> newMin]
        validation == validateDistanceSettings(updatedSettings)
    IN  [h EXCEPT !.settings = updatedSettings,
                  !.savedSettings = updatedSettings,
                  !.validationErrors = validation.errors,
                  !.isValid = validation.isValid]

updateSettings(h, newMin) ==
    LET updatedSettings == [minDistance |-> newMin]
        validation == validateDistanceSettings(updatedSettings)
    IN  [h EXCEPT !.settings = updatedSettings,
                  !.validationErrors = validation.errors,
                  !.isValid = validation.isValid]

\* saveSettings that notifies the parent before it writes to localStorage
saveSettingsCallbackFirst(h, writeOK, connected) ==
    IF ~h.isValid THEN [state |-> h, effects |-> <<>>]
    ELSE LET correctedSettings == autoCorrectSettings(h.settings)
             text == JSONstringify(correctedSettings)
         IN  IF ~writeOK
             THEN [state |-> h,
                   effects |-> handleDistanceSettingsChange(correctedSettings,
                                                            connected)]
             ELSE [state |-> [h EXCEPT !.storage = text,
                                       !.settings = correctedSettings,
                                       !.savedSettings = correctedSettings],
                   effects |-> handleDistanceSettingsChange(correctedSettings,
                                                            connected)
                       \o <<[kind |-> "write", val |-> text]>>]

\* saveSettings that updates the state before it writes to localStorage
saveSettingsCommitBeforeWrite(h, writeOK, connected) ==
    IF ~h.isValid THEN [state |-> h, effects |-> <<>>]
    ELSE LET correctedSettings == autoCorrectSettings(h.settings)
             text == JSONstringify(correctedSettings)
             h1 == [h EXCEPT !.settings = correctedSettings,
                             !.savedSettings = correctedSettings]
         IN  IF ~writeOK THEN [state |-> h1, effects |-> <<>>]
             ELSE [state |-> [h1 EXCEPT !.storage = text],
                   effects |-> <<[kind |-> "write", val |-> text]>>
                       \o handleDistanceSettingsChange(correctedSettings,
                                                       connected)]

\* writeOK = FALSE when localStorage.setItem throws
saveSettings(h, writeOK, connected) ==
    IF ~h.isValid THEN [state |-> h, effects |-> <<>>]
    ELSE LET correctedSettings == autoCorrectSettings(h.settings)
             text == JSONstringify(correctedSettings)
         IN  IF ~writeOK THEN [state |-> h, effects |-> <<>>]
             ELSE [state |-> [h EXCEPT !.storage = text,
                                       !.settings = correctedSettings,
                                       !.savedSettings = correctedSettings],
                   effects |-> <<[kind |-> "write", val |-> text]>>
                       \o handleDistanceSettingsChange(correctedSettings,
                                                       connected)]

\* resetToDefaults that leaves validationErrors and isValid as they are
resetToDefaultsKeepValidity(h, writeOK, connected) ==
    LET h1 == [h EXCEPT !.settings = DEFAULT_DISTANCE_SETTINGS]
        text == JSONstringify(DEFAULT_DISTANCE_SETTINGS)
    IN  IF ~writeOK THEN [state |-> h1, effects |-> <<>>]
        ELSE [state |-> [h1 EXCEPT !.storage = text,
                                   !.savedSettings = DEFAULT_DISTANCE_SETTINGS],
              effects |-> <<[kind |-> "write", val |-> text]>>
                  \o handleDistanceSettingsChange(DEFAULT_DISTANCE_SETTINGS,
                                                  connected)]

resetToDefaults(h, writeOK, connected) ==
    LET h1 == [h EXCEPT !.settings = DEFAULT_DISTANCE_SETTINGS,
                        !.validationErrors = <<>>,
                        !.isValid = TRUE]
        text == JSONstringify(DEFAULT_DISTANCE_SETTINGS)
    IN  IF ~writeOK THEN [state |-> h1, effects |-> <<>>]
        ELSE [state |-> [h1 EXCEPT !.storage = text,
                                   !.savedSettings = DEFAULT_DISTANCE_SETTINGS],
              effects |-> <<[kind |-> "write", val |-> text]>>
                  \o handleDistanceSettingsChange(DEFAULT_DISTANCE_SETTINGS,
                                                  connected)]

----------------------------------------------------------------------------
(* components/DistanceSettingsPanel *)

\* a save button that stays enabled when nothing is unsaved
SaveButtonDisabledNoDirtyCheck == ~isValid \/ ~isConnected

\* the disabled attribute of the save button
SaveButtonDisabled == ~isValid \/ ~hasUnsavedChanges \/ ~isConnected

handleInputChange(h, text) ==
    LET numValue == parseFloat(text)
    IN  IF ~IsNaN(numValue) THEN updateSettings(h, numValue) ELSE h

handleSave(h, writeOK, connected) ==
    IF h.isValid THEN saveSettings(h, writeOK, connected)
    ELSE [state |-> h, effects |-> <<>>]

handleReset(h, confirmed, writeOK, connected) ==
    IF confirmed THEN resetToDefaults(h, writeOK, connected)
    ELSE [state |-> h, effects |-> <<>>]

----------------------------------------------------------------------------
(* App.tsx RCCarController: the commands sent to the car *)

MQTT_TOPICS ==
    [CONTROL |-> "esp32/car/control/move",
     SPEED |-> "esp32/car/control/speed",
     FLASH |-> "esp32/car/control/flash",
     DISTANCE_SETTINGS |-> "esp32/car/config/distance",
     STATUS |-> "esp32/car/status",
     CAMERA |-> "esp32/cam/stream",
     LOG |-> "esp32/car/log",
     AUTONOMOUS |-> "esp32/car/command/autonomous",
     SENSOR_DISTANCE |-> "esp32/car/sensor/distance"]

SLIDER_MIN == 0
SLIDER_MAX == 100
SPEED_PWM_MIN == 100
SPEED_PWM_SPAN == 155
FLASH_PWM_MAX == 255
DEFAULT_SPEED_PERCENT == 50
DEFAULT_LED_PERCENT == 0

ControlKeys == {"w", "a", "s", "d"}

\* a JavaScript string with its characters
Text(chars) == [k |-> "text", v |-> chars]

\* String(value): the decimal digits of a number, a string as it is
String(value) ==
    IF value.k = "num" THEN Text(ToString(value.v)) ELSE value

\* Math.round(num / den) for den > 0: the nearest integer, a half goes up
MathRound(num, den) == (2 * num + den) \div (2 * den)

\* Math.round(100 + (v / 100) * 155)
speedCommandValue(v) ==
    MathRound(100 * SPEED_PWM_MIN + v * SPEED_PWM_SPAN, 100)

\* the flash conversion without the division by 100
flashCommandValueUnscaled(v) == MathRound(v * FLASH_PWM_MAX, 1)

\* Math.round((v / 100) * 255)
flashCommandValue(v) == MathRound(v * FLASH_PWM_MAX, 100)

\* useMQTT.publish without the test of the client
clientPublishUnguarded(topic, message, c) ==
    <<[topic |-> topic, message |-> message]>>

\* useMQTT.publish on the client: dropped unless the client is connected
clientPublish(topic, message, c) ==
    IF c = "connected" THEN <<[topic |-> topic, message |-> message]>>
    ELSE <<>>

\* useMQTT.subscribe on the client: dropped unless the client is connected
clientSubscribe(topic, c) == IF c = "connected" THEN {topic} ELSE {}

\* the subscription effect without the sensor topic
subscriptionEffectNoSensor(connected, c) ==
    IF connected
    THEN clientSubscribe(MQTT_TOPICS.CAMERA, c)
             \cup clientSubscribe(MQTT_TOPICS.STATUS, c)
             \cup clientSubscribe(MQTT_TOPICS.LOG, c)
    ELSE {}

\* the effect with dependencies [isConnected, subscribe]: the topics it
\* subscribes to when it runs
subscriptionEffect(connected, c) ==
    IF connected
    THEN clientSubscribe(MQTT_TOPICS.CAMERA, c)
             \cup clientSubscribe(MQTT_TOPICS.STATUS, c)
             \cup clientSubscribe(MQTT_TOPICS.LOG, c)
             \cup clientSubscribe(MQTT_TOPICS.SENSOR_DISTANCE, c)
    ELSE {}

\* AppContent that renders the controller for a signed-out visitor
ControllerShownWithoutUser(l, u) == ~l

\* AppContent renders RCCarController when authentication has answered and
\* a user is signed in
ControllerShown(l, u) == ~l /\ u # "none"

TopicOf(type) ==
    CASE type = "move" -> MQTT_TOPICS.CONTROL
      [] type = "speed" -> MQTT_TOPICS.SPEED
      [] type = "flash" -> MQTT_TOPICS.FLASH
      [] type = "autonomous" -> MQTT_TOPICS.AUTONOMOUS

\* sendCommand that lets manual commands through in autonomous mode
sendCommandNoModeCheck(type, value, connected, autonomous, c) ==
    IF connected THEN clientPublish(TopicOf(type), String(value), c)
    ELSE <<>>

\* connected and autonomous are the isConnected and isAutonomous of the
\* render that made the callback
sendCommand(type, value, connected, autonomous, c) ==
    IF connected /\ (type = "autonomous" \/ ~autonomous)
    THEN clientPublish(TopicOf(type), String(value), c)
    ELSE <<>>

DirectionOfKey(key) ==
    CASE key = "w" -> "forward"
      [] key = "s" -> "backward"
      [] key = "a" -> "left"
      [] key = "d" -> "right"

NoCmd ==
    [ev |-> "none", arg |-> "none", auto |-> FALSE, conn |-> FALSE,
     ran |-> FALSE, published |-> <<>>, logged |-> <<>>]

\* RCCarController is not mounted: no client, the initial React state
ControllerInit ==
    /\ client = "none"
    /\ connectionStatus = "disconnected"
    /\ isAutonomous = FALSE
    /\ activeKeys = {}
    /\ speedPercent = DEFAULT_SPEED_PERCENT
    /\ ledPercent = DEFAULT_LED_PERCENT
    /\ lastCmd = NoCmd

NoAuth ==
    [ev |-> "none", signedIn |-> FALSE, wasMounted |-> FALSE,
     clientEnded |-> FALSE]

NoEvent == [ev |-> "none", afterClose |-> FALSE]

NoCall == [id |-> 0, fn |-> "none", topic |-> "none", at |-> "none"]

NoClear == [phase |-> "idle", t |-> 0]

NoLogOp == [op |-> "none", pre |-> <<>>, entry |-> "none"]

\* the application before authentication has answered: AuthProvider shows
\* loading, nothing else is mounted
AppInit ==
    /\ loading = TRUE
    /\ user = "none"
    /\ lastAuth = NoAuth
    /\ subs = {}
    /\ lastEvent = NoEvent
    /\ sent = {}
    /\ lastCall = NoCall
    /\ logs = <<>>
    /\ clock = 0
    /\ logLoad = "idle"
    /\ clearing = NoClear
    /\ lastLog = NoLogOp

----------------------------------------------------------------------------
(* The state machine of the panel; isConnected is an input of the panel *)

Commit(h) ==
    /\ settings' = h.settings
    /\ savedSettings' = h.savedSettings
    /\ validationErrors' = h.validationErrors
    /\ isValid' = h.isValid
    /\ storage' = h.storage

NeverWritten ==
    [by |-> "none", text |-> AbsentText, value |-> DEFAULT_DISTANCE_SETTINGS,
     conn |-> FALSE]

\* conn is the isConnected of the render whose handler ran; a handler that
\* got through localStorage.setItem is remembered with the text it wrote
Record(op, io, accepted, conn, effects) ==
    /\ lastOp' = [op |-> op, io |-> io, accepted |-> accepted,
                  pre |-> HookState, conn |-> conn, effects |-> effects]
    /\ written' =
         LET writes == SelectSeq(effects, LAMBDA e : e.kind = "write")
             notified == SelectSeq(effects, LAMBDA e : e.kind = "notify")
         IN  IF writes = <<>> THEN written
             ELSE [by |-> op, text |-> writes[1].val,
                   value |-> notified[1].val, conn |-> conn]

IoOf(ok) == IF ok THEN "ok" ELSE "fail"

Init ==
    /\ storage \in StoredTexts
    /\ settings = DEFAULT_DISTANCE_SETTINGS
    /\ savedSettings = DEFAULT_DISTANCE_SETTINGS
    /\ validationErrors = <<>>
    /\ isValid = TRUE
    /\ isConnected = FALSE
    /\ mounted = FALSE
    /\ lastOp = [op |-> "none", io |-> "none", accepted |-> FALSE,
                 pre |-> InitialHookState(storage), conn |-> FALSE,
                 effects |-> <<>>]
    /\ written = NeverWritten
    /\ pin = [minDistance |-> Num(DEFAULT_MIN_DISTANCE),
              maxDistance |-> Num(DEFAULT_MAX_DISTANCE),
              safeDistance |-> Num(DEFAULT_SAFE_DISTANCE)]
    /\ pout = [fn |-> "none"]
    /\ ControllerInit
    /\ AppInit

\* the panel mounts: the load effect runs on the initial state
Mount ==
    /\ ~mounted
    /\ \E readOK \in BOOLEAN :
         LET r == loadEffect(HookState, readOK, isConnected)
         IN  /\ Commit(r.state)
             /\ Record("load", IoOf(readOK), TRUE, isConnected, r.effects)
    /\ mounted' = TRUE
    /\ UNCHANGED <<isConnected, pin, pout, ctlVars, appVars>>

\* a connect or close event of the MQTT client flips isConnected; the
\* callback is re-created, so the load effect runs again
ConnectionChange ==
    /\ mounted
    /\ isConnected' = ~isConnected
    /\ \E readOK \in BOOLEAN :
         LET r == loadEffect(HookState, readOK, isConnected')
         IN  /\ Commit(r.state)
             /\ Record("load", IoOf(readOK), TRUE, isConnected', r.effects)
    /\ UNCHANGED <<mounted, pin, pout, ctlVars, appVars>>

InputChange ==
    /\ mounted
    /\ \E text \in InputTexts :
         /\ Commit(handleInputChange(HookState, text))
         /\ Record("edit", "none", ~IsNaN(parseFloat(text)), isConnected,
                   <<>>)
    /\ UNCHANGED <<isConnected, mounted, pin, pout, ctlVars, appVars>>

\* a click on the save button; a disabled button runs no handler
SaveClick ==
    /\ mounted
    /\ \E writeOK \in BOOLEAN :
         IF SaveButtonDisabled
         THEN /\ Commit(HookState)
              /\ Record("save", "none", FALSE, isConnected, <<>>)
         ELSE LET r == handleSave(HookState, writeOK, isConnected)
              IN  /\ Commit(r.state)
                  /\ Record("save", IoOf(writeOK), TRUE, isConnected,
                            r.effects)
    /\ UNCHANGED <<isConnected, mounted, pin, pout, ctlVars, appVars>>

ResetClick ==
    /\ mounted
    /\ \E confirmed \in BOOLEAN, writeOK \in BOOLEAN :
         LET r == handleReset(HookState, confirmed, writeOK, isConnected)
         IN  /\ Commit(r.state)
             /\ Record("reset", IF confirmed THEN IoOf(writeOK) ELSE "none",
                       confirmed, isConnected, r.effects)
    /\ UNCHANGED <<isConnected, mounted, pin, pout, ctlVars, appVars>>

\* the panel unmounts (sign-out, reload): the React state is dropped, the
\* stored text stays
Unmount ==
    /\ mounted
    /\ mounted' = FALSE
    /\ isConnected' = FALSE
    /\ Commit(InitialHookState(storage))
    /\ Record("unmount", "none", TRUE, isConnected, <<>>)
    /\ UNCHANGED <<pin, pout, ctlVars, appVars>>

Next ==
    \/ Mount
    \/ ConnectionChange
    \/ InputChange
    \/ SaveClick
    \/ ResetClick
    \/ Unmount

Spec == Init /\ [][Next]_vars

----------------------------------------------------------------------------
(* The validation utilities applied to drawn inputs *)

\* the values of Scenarios B, C and D next to the boundary values
ScenarioNums == {1, 20, 30, 40, 400}

PureNums ==
    Around(0) \cup Around(MIN_ALLOWED) \cup Around(DEFAULT_MIN_DISTANCE)
        \cup Around(MAX_ALLOWED - REPAIR_MARGIN) \cup Around(MAX_ALLOWED)
        \cup ScenarioNums

PureValues == {Num(n) : n \in PureNums} \cup {NaN, PosInf, NegInf}

PureInputs ==
    [minDistance : PureValues,
     maxDistance : {Num(DEFAULT_MAX_DISTANCE), Num(MAX_ALLOWED)},
     safeDistance : PureValues]

Single(s) == [minDistance |-> s.minDistance]

PureInit ==
    /\ pin \in PureInputs
    /\ pout = [fn |-> "none"]
    /\ ControllerInit
    /\ AppInit
    /\ storage = AbsentText
    /\ settings = DEFAULT_DISTANCE_SETTINGS
    /\ savedSettings = DEFAULT_DISTANCE_SETTINGS
    /\ validationErrors = <<>>
    /\ isValid = TRUE
    /\ isConnected = FALSE
    /\ mounted = FALSE
    /\ lastOp = [op |-> "none", io |-> "none", accepted |-> FALSE,
                 pre |-> InitialHookState(storage), conn |-> FALSE,
                 effects |-> <<>>]
    /\ written = NeverWritten

ApplyValidate ==
    /\ pout' = [fn |-> "validate", r |-> validateDistanceSettings(Single(pin))]
    /\ UNCHANGED <<pin, hookVars, isConnected, ctlVars, appVars>>

ApplyValidateMulti ==
    /\ pout' = [fn |-> "validateMulti", r |-> validateDistanceSettingsMulti(pin)]
    /\ UNCHANGED <<pin, hookVars, isConnected, ctlVars, appVars>>

ApplySanitize ==
    /\ pout' = [fn |-> "sanitize", r |-> sanitizeDistanceValue(pin.minDistance)]
    /\ UNCHANGED <<pin, hookVars, isConnected, ctlVars, appVars>>

ApplyAutoCorrect ==
    /\ pout' = [fn |-> "autoCorrect", r |-> autoCorrectSettings(Single(pin))]
    /\ UNCHANGED <<pin, hookVars, isConnected, ctlVars, appVars>>

ApplyAutoCorrectMulti ==
    /\ pout' = [fn |-> "autoCorrectMulti", r |-> autoCorrectSettingsMulti(pin)]
    /\ UNCHANGED <<pin, hookVars, isConnected, ctlVars, appVars>>

\* autoCorrectSettings applied to its own result
ApplyAutoCorrectAgain ==
    /\ pout.fn = "autoCorrect"
    /\ pout' = [fn |-> "autoCorrectTwice",
                r |-> [first |-> pout.r,
                       second |-> autoCorrectSettings(pout.r)]]
    /\ UNCHANGED <<pin, hookVars, isConnected, ctlVars, appVars>>

ApplyAutoCorrectMultiAgain ==
    /\ pout.fn = "autoCorrectMulti"
    /\ pout' = [fn |-> "autoCorrectMultiTwice",
                r |-> [first |-> pout.r,
                       second |-> autoCorrectSettingsMulti(pout.r)]]
    /\ UNCHANGED <<pin, hookVars, isConnected, ctlVars, appVars>>

\* validateDistanceSettings applied to the result of autoCorrectSettings
ApplyValidateCorrectedMulti ==
    /\ pout.fn = "autoCorrectMulti"
    /\ pout' = [fn |-> "validateCorrectedMulti",
                r |-> [corrected |-> pout.r,
                       validation |-> validateDistanceSettingsMulti(pout.r)]]
    /\ UNCHANGED <<pin, hookVars, isConnected, ctlVars, appVars>>

PureNext ==
    \/ ApplyValidate
    \/ ApplyValidateMulti
    \/ ApplySanitize
    \/ ApplyAutoCorrect
    \/ ApplyAutoCorrectMulti
    \/ ApplyAutoCorrectAgain
    \/ ApplyAutoCorrectMultiAgain
    \/ ApplyValidateCorrectedMulti

SpecPure == PureInit /\ [][PureNext]_vars

----------------------------------------------------------------------------
(* The state machine of useMQTT and the controls of RCCarController *)

\* the slider positions the controls are driven to
SliderSamples == {SLIDER_MIN, DEFAULT_SPEED_PERCENT, SLIDER_MAX}

\* the text toggleAutonomousMode hands to handleLogMessage
AutonomousLogText(mode) ==
    IF mode = "on" THEN "[WEB] Autonomous mode set to ON"
    ELSE "[WEB] Autonomous mode set to OFF"

\* auto and conn are the isAutonomous and isConnected of the render whose
\* handler ran
Cmd(ev, arg, ran, published) ==
    lastCmd' = [ev |-> ev, arg |-> arg, auto |-> isAutonomous,
                conn |-> isConnected, ran |-> ran, published |-> published,
                logged |-> IF ev = "toggle" /\ ran
                           THEN <<AutonomousLogText(arg)>> ELSE <<>>]

\* RCCarController mounts: the effect of useMQTT creates the client and
\* the mount effect calls loadLogsFromDatabase
MqttMount ==
    /\ client = "none"
    /\ ControllerShown(loading, user)
    /\ client' = "connecting"
    /\ connectionStatus' = "connecting"
    /\ lastEvent' = [ev |-> "mount", afterClose |-> lastEvent.afterClose]
    /\ logLoad' = "pending"
    /\ UNCHANGED <<isConnected, isAutonomous, activeKeys, speedPercent,
                   ledPercent, lastCmd, hookVars, pin, pout, authVars, subs,
                   callVars, logs,
                   clock, clearing, lastLog>>

\* client.on('connect')
\* the subscription effect of RCCarController runs in the render after
\* isConnected changed
OnConnect ==
    /\ client = "connecting"
    /\ client' = "connected"
    /\ isConnected' = TRUE
    /\ connectionStatus' = "connected"
    /\ subs' = IF isConnected' # isConnected
               THEN subs \cup subscriptionEffect(isConnected', client')
               ELSE subs
    /\ lastEvent' = [ev |-> "connect", afterClose |-> lastEvent.afterClose]
    /\ UNCHANGED <<isAutonomous, activeKeys, speedPercent, ledPercent,
                   lastCmd, hookVars, pin, pout, authVars, callVars, logVars>>

\* the error handler without setIsConnected(false)
OnErrorKeepsConnected ==
    /\ client \in {"connecting", "connected"}
    /\ connectionStatus' = "error"
    /\ client' = "ending"
    /\ subs' = {}
    /\ lastEvent' = [ev |-> "error", afterClose |-> lastEvent.afterClose]
    /\ UNCHANGED <<isConnected, isAutonomous, activeKeys, speedPercent,
                   ledPercent, lastCmd, hookVars, pin, pout, authVars,
                   callVars, logVars>>

\* client.on('error'): client.end(true) ends the client for good, its
\* stream is being destroyed and no reconnect timer is armed
OnError ==
    /\ client \in {"connecting", "connected"}
    /\ isConnected' = FALSE
    /\ connectionStatus' = "error"
    /\ client' = "ending"
    /\ subs' = {}
    /\ lastEvent' = [ev |-> "error", afterClose |-> lastEvent.afterClose]
    /\ UNCHANGED <<isAutonomous, activeKeys, speedPercent, ledPercent,
                   lastCmd, hookVars, pin, pout, authVars, callVars, logVars>>

\* client.on('close'): the stream closed; a client that was not ended arms
\* its reconnect timer
OnClose ==
    /\ client \in {"connecting", "connected", "ending"}
    /\ client' = IF client = "ending" THEN "ended" ELSE "offline"
    /\ isConnected' = FALSE
    /\ connectionStatus' = "disconnected"
    /\ subs' = {}
    /\ lastEvent' = [ev |-> "close", afterClose |-> TRUE]
    /\ UNCHANGED <<isAutonomous, activeKeys, speedPercent, ledPercent,
                   lastCmd, hookVars, pin, pout, authVars, callVars, logVars>>

\* client.on('reconnect'): the reconnect timer fired
OnReconnect ==
    /\ client = "offline"
    /\ client' = "connecting"
    /\ connectionStatus' = "connecting"
    /\ lastEvent' = [ev |-> "reconnect", afterClose |-> lastEvent.afterClose]
    /\ UNCHANGED <<isConnected, isAutonomous, activeKeys, speedPercent,
                   ledPercent, lastCmd, hookVars, pin, pout, authVars, subs,
                   callVars, logVars>>

\* RCCarController unmounts: the cleanup ends the client and clears the
\* ref, the React state is dropped and the promises still pending resolve
\* into an unmounted component
ControllerCleanup ==
    /\ client' = "none"
    /\ isConnected' = FALSE
    /\ connectionStatus' = "disconnected"
    /\ isAutonomous' = FALSE
    /\ activeKeys' = {}
    /\ speedPercent' = DEFAULT_SPEED_PERCENT
    /\ ledPercent' = DEFAULT_LED_PERCENT
    /\ lastCmd' = NoCmd
    /\ subs' = {}
    /\ lastEvent' = NoEvent
    /\ logs' = <<>>
    /\ logLoad' = "idle"
    /\ clearing' = NoClear
    /\ lastLog' = NoLogOp

\* the page leaves the route of the controller
ControllerUnmount ==
    /\ client # "none"
    /\ ControllerCleanup
    /\ UNCHANGED <<hookVars, pin, pout, authVars, callVars, clock>>

\* getSession resolves or onAuthStateChange fires, with a session or with
\* none; a render without user unmounts the controller, whose cleanup
\* ends the client when the ref holds one
AuthSessionChange ==
    /\ \E session \in {"none", "user"} :
         /\ loading' = FALSE
         /\ user' = session
         /\ lastAuth' = [ev |-> "session", signedIn |-> session # "none",
                         wasMounted |-> client # "none",
                         clientEnded |-> /\ ~ControllerShown(FALSE, session)
                                         /\ client # "none"]
         /\ IF client # "none" /\ ~ControllerShown(FALSE, session)
            THEN ControllerCleanup
            ELSE UNCHANGED <<ctlVars, isConnected, subs, lastEvent, logs,
                             logLoad, clearing, lastLog>>
    /\ UNCHANGED <<hookVars, pin, pout, callVars, clock>>

\* the click of the autonomous button, disabled while not connected
ToggleAutonomous ==
    /\ client # "none"
    /\ IF ~isConnected
       THEN /\ Cmd("toggle", "none", FALSE, <<>>)
            /\ UNCHANGED isAutonomous
       ELSE LET newMode == ~isAutonomous
            IN  /\ isAutonomous' = newMode
                /\ Cmd("toggle", IF newMode THEN "on" ELSE "off", TRUE,
                       sendCommand("autonomous",
                                   Text(IF newMode THEN "on" ELSE "off"),
                                   isConnected, isAutonomous, client))
    /\ UNCHANGED <<client, connectionStatus, isConnected, activeKeys,
                   speedPercent, ledPercent, hookVars, pin, pout, appVars>>

\* handleSpeedChange, from a slider disabled while not connected or
\* autonomous
SpeedChangeOf(positions) ==
    /\ client # "none"
    /\ \E v \in positions :
         IF ~isConnected \/ isAutonomous
         THEN /\ Cmd("speed", v, FALSE, <<>>)
              /\ UNCHANGED speedPercent
         ELSE /\ speedPercent' = v
              /\ Cmd("speed", v, TRUE,
                     sendCommand("speed", Num(speedCommandValue(v)),
                                 isConnected, isAutonomous, client))
    /\ UNCHANGED <<client, connectionStatus, isConnected, isAutonomous,
                   activeKeys, ledPercent, hookVars, pin, pout, appVars>>

\* handleLEDChange, from a slider disabled while not connected
LEDChangeOf(positions) ==
    /\ client # "none"
    /\ \E v \in positions :
         IF ~isConnected
         THEN /\ Cmd("flash", v, FALSE, <<>>)
              /\ UNCHANGED ledPercent
         ELSE /\ ledPercent' = v
              /\ Cmd("flash", v, TRUE,
                     sendCommand("flash", Num(flashCommandValue(v)),
                                 isConnected, isAutonomous, client))
    /\ UNCHANGED <<client, connectionStatus, isConnected, isAutonomous,
                   activeKeys, speedPercent, hookVars, pin, pout, appVars>>

SpeedChange == SpeedChangeOf(SliderSamples)

LEDChange == LEDChangeOf(SliderSamples)

\* handleDirectionControl from a direction button or the stop button,
\* disabled while not connected or autonomous; React withholds the mouse
\* events of a disabled button, not its touch events
DirectionButton ==
    /\ client # "none"
    /\ \E dir \in {"forward", "left", "right", "backward", "stop"},
          touch \in BOOLEAN :
         IF (~isConnected \/ isAutonomous) /\ ~touch
         THEN Cmd("direction", dir, FALSE, <<>>)
         ELSE Cmd("direction", dir, TRUE,
                  sendCommand("move", Text(dir), isConnected, isAutonomous,
                              client))
    /\ UNCHANGED <<client, connectionStatus, isConnected, isAutonomous,
                   activeKeys, speedPercent, ledPercent, hookVars, pin, pout, appVars>>

\* handleKeyDown of the window listener
KeyDown ==
    /\ client # "none"
    /\ \E key \in ControlKeys \cup {"x"}, repeat \in BOOLEAN :
         IF repeat \/ isAutonomous \/ key \notin ControlKeys
         THEN /\ Cmd("keydown", key, FALSE, <<>>)
              /\ UNCHANGED activeKeys
         ELSE /\ activeKeys' = activeKeys \cup {key}
              /\ Cmd("keydown", key, TRUE,
                     sendCommand("move", Text(DirectionOfKey(key)),
                                 isConnected, isAutonomous, client))
    /\ UNCHANGED <<client, connectionStatus, isConnected, isAutonomous,
                   speedPercent, ledPercent, hookVars, pin, pout, appVars>>

\* handleKeyUp of the window listener
KeyUp ==
    /\ client # "none"
    /\ \E key \in ControlKeys \cup {"x"} :
         IF isAutonomous \/ key \notin ControlKeys
         THEN /\ Cmd("keyup", key, FALSE, <<>>)
              /\ UNCHANGED activeKeys
         ELSE /\ activeKeys' = activeKeys \ {key}
              /\ Cmd("keyup", key, TRUE,
                     sendCommand("move", Text("stop"), isConnected,
                                 isAutonomous, client))
    /\ UNCHANGED <<client, connectionStatus, isConnected, isAutonomous,
                   speedPercent, ledPercent, hookVars, pin, pout, appVars>>

ControlInit ==
    /\ PureInit
    /\ pin = [minDistance |-> Num(DEFAULT_MIN_DISTANCE),
              maxDistance |-> Num(DEFAULT_MAX_DISTANCE),
              safeDistance |-> Num(DEFAULT_SAFE_DISTANCE)]

ControlNext ==
    \/ MqttMount
    \/ OnConnect
    \/ OnError
    \/ OnClose
    \/ OnReconnect
    \/ ControllerUnmount
    \/ AuthSessionChange
    \/ ToggleAutonomous
    \/ SpeedChange
    \/ LEDChange
    \/ DirectionButton
    \/ KeyDown
    \/ KeyUp

SpecControl == ControlInit /\ [][ControlNext]_vars

----------------------------------------------------------------------------
(* useMQTT with a caller that publishes and subscribes at any time *)

\* calls of publish / subscribe the caller makes
MaxCalls == 3

HookTopics == {MQTT_TOPICS.CONTROL, MQTT_TOPICS.LOG}

\* publish(topic, message) or subscribe(topic) of the hook, whatever the
\* client is doing; the callbacks outlive the mount
HookCall ==
    /\ lastCall.id < MaxCalls
    /\ \E fn \in {"publish", "subscribe"}, topic \in HookTopics :
         LET call == [id |-> lastCall.id + 1, fn |-> fn, topic |-> topic,
                      at |-> client]
             handed ==
                 IF fn = "publish"
                 THEN clientPublish(topic, Text("payload"), client) # <<>>
                 ELSE clientSubscribe(topic, client) # {}
         IN  /\ lastCall' = call
             /\ sent' = IF handed THEN sent \cup {call} ELSE sent
             /\ subs' = IF fn = "subscribe"
                        THEN subs \cup clientSubscribe(topic, client)
                        ELSE subs
    /\ UNCHANGED <<ctlVars, isConnected, hookVars, pin, pout, authVars,
                   lastEvent, logVars>>

MqttNext ==
    \/ AuthSessionChange
    \/ MqttMount
    \/ OnConnect
    \/ OnError
    \/ OnClose
    \/ OnReconnect
    \/ ControllerUnmount
    \/ HookCall

SpecMQTT == ControlInit /\ [][MqttNext]_vars

----------------------------------------------------------------------------
(* The log list of RCCarController *)

\* readings of new Date(), each later than the one before
MaxClock == 3

LOG_LIMIT == 100
LOG_KEEP == 99
CLEAR_MESSAGE == "[WEB] System logs cleared by user"

\* log texts with the level words they contain
LogTexts ==
    {[text |-> "[ESP32] ERROR after WARNING", words |-> {"ERROR", "WARNING"}],
     [text |-> "[WEB] Autonomous mode set to ON", words |-> {}]}

\* the three tests of handleLogMessage, the later one wins
LevelOf(logData) ==
    IF "DEBUG" \in logData.words THEN "DEBUG"
    ELSE IF "WARNING" \in logData.words THEN "WARNING"
    ELSE IF "ERROR" \in logData.words THEN "ERROR"
    ELSE "INFO"

\* prevLogs.slice(0, n)
Slice(prevLogs, n) ==
    SubSeq(prevLogs, 1, IF Len(prevLogs) < n THEN Len(prevLogs) ELSE n)

\* handleLogMessage that keeps a hundred earlier entries
handleLogMessageKeepsHundred(prevLogs, logData, now) ==
    <<[t |-> now, level |-> LevelOf(logData), message |-> logData.text]>>
        \o Slice(prevLogs, LOG_LIMIT)

\* the functional update of handleLogMessage: [newLog, ...slice(0, 99)]
handleLogMessage(prevLogs, logData, now) ==
    <<[t |-> now, level |-> LevelOf(logData), message |-> logData.text]>>
        \o Slice(prevLogs, LOG_KEEP)

\* the rows of device_logs written before this session, n of them in
\* the order of their insertion
StoredRows(n) ==
    [k \in 1..n |-> [t |-> k - n, level |-> "INFO", message |-> "stored"]]

DbSizes == {0, 1, LOG_LIMIT, LOG_LIMIT + 1}

Range(seq) == {seq[i] : i \in DOMAIN seq}

Newer(a, b) == a.t > b.t

\* order('timestamp', { ascending: false }).limit(limit)
getLogsFromDatabase(limit, rows) == Slice(SortSeq(rows, Newer), limit)

\* loadLogsFromDatabase once its query has answered
loadLogsFromDatabase(prevLogs, ok, rows) ==
    IF ok THEN getLogsFromDatabase(LOG_LIMIT, rows) ELSE prevLogs

\* handleClearLogs that keeps the list when the delete fails
handleClearLogsKeepsOnFailure(prevLogs, outcome) ==
    IF outcome = "success" THEN <<>> ELSE prevLogs

\* handleClearLogs once clearLogsFromDatabase has answered: the list is
\* emptied in the success branch, the failure branch and the catch block
handleClearLogs(prevLogs, outcome) == <<>>

LogOp(op, entry) == lastLog' = [op |-> op, pre |-> logs, entry |-> entry]

\* handleLogMessage, called for a message on the log topic, by
\* toggleAutonomousMode or by handleDistanceSettingsChange, all of them
\* only while connected
LogMessage ==
    /\ client = "connected"
    /\ isConnected
    /\ clock < MaxClock
    /\ \E logData \in LogTexts :
         /\ clock' = clock + 1
         /\ logs' = handleLogMessage(logs, logData, clock')
         /\ LogOp("message", logs'[1])
    /\ UNCHANGED <<ctlVars, isConnected, hookVars, pin, pout, authVars, subs,
                   lastEvent, callVars, logLoad, clearing>>

\* the query of loadLogsFromDatabase answers: the rows stored earlier,
\* with or without the entries on display, or an error
LoadResolve ==
    /\ logLoad = "pending"
    /\ logLoad' = "idle"
    /\ \E ok \in BOOLEAN, n \in DbSizes, withShown \in BOOLEAN :
         /\ logs' = loadLogsFromDatabase(
                        logs, ok,
                        StoredRows(n)
                            \o (IF withShown THEN logs ELSE <<>>))
         /\ LogOp(IF ok THEN "load" ELSE "loadFailed", "none")
    /\ UNCHANGED <<ctlVars, isConnected, hookVars, pin, pout, authVars, subs,
                   lastEvent, callVars, clock, clearing>>

\* the clear button of LogPanel, shown for a non-empty list, disabled
\* while loading and asking for confirmation; one request at a time
ClearClick ==
    /\ client # "none"
    /\ logs # <<>>
    /\ logLoad = "idle"
    /\ clearing.phase = "idle"
    /\ clearing' = [phase |-> "deleting", t |-> 0]
    /\ LogOp("clearClick", "none")
    /\ UNCHANGED <<ctlVars, isConnected, hookVars, pin, pout, authVars, subs,
                   lastEvent, callVars, logs, clock, logLoad>>

\* clearLogsFromDatabase answers; on success the clear entry is made and
\* set after saveLogToDatabase and the timeout
ClearResolve ==
    /\ clearing.phase = "deleting"
    /\ \E outcome \in {"success", "failure", "throws"} :
         /\ logs' = handleClearLogs(logs, outcome)
         /\ IF outcome = "success"
            THEN /\ clock < MaxClock
                 /\ clock' = clock + 1
                 /\ clearing' = [phase |-> "timer", t |-> clock']
            ELSE /\ clearing' = NoClear
                 /\ UNCHANGED clock
         /\ LogOp("clearResolved", outcome)
    /\ UNCHANGED <<ctlVars, isConnected, hookVars, pin, pout, authVars, subs,
                   lastEvent, callVars, logLoad>>

\* the timeout of handleClearLogs fires: setLogs([clearLog])
ClearTimer ==
    /\ clearing.phase = "timer"
    /\ clearing' = NoClear
    /\ logs' = <<[t |-> clearing.t, level |-> "INFO",
                  message |-> CLEAR_MESSAGE]>>
    /\ LogOp("clearTimer", logs'[1])
    /\ UNCHANGED <<ctlVars, isConnected, hookVars, pin, pout, authVars, subs,
                   lastEvent, callVars, clock, logLoad>>

LogsNext ==
    \/ AuthSessionChange
    \/ MqttMount
    \/ OnConnect
    \/ OnClose
    \/ OnReconnect
    \/ LogMessage
    \/ LoadResolve
    \/ ClearClick
    \/ ClearResolve
    \/ ClearTimer

SpecLogs == ControlInit /\ [][LogsNext]_vars

----------------------------------------------------------------------------
(* The sliders of a connected controller driven through their whole range *)

\* the controller after MqttMount and OnConnect, the panel not modelled
SliderInit ==
    /\ client = "connected"
    /\ connectionStatus = "connected"
    /\ isConnected = TRUE
    /\ isAutonomous = FALSE
    /\ activeKeys = {}
    /\ speedPercent = DEFAULT_SPEED_PERCENT
    /\ ledPercent = DEFAULT_LED_PERCENT
    /\ lastCmd = NoCmd
    /\ pin = [minDistance |-> Num(DEFAULT_MIN_DISTANCE),
              maxDistance |-> Num(DEFAULT_MAX_DISTANCE),
              safeDistance |-> Num(DEFAULT_SAFE_DISTANCE)]
    /\ pout = [fn |-> "none"]
    /\ storage = AbsentText
    /\ settings = DEFAULT_DISTANCE_SETTINGS
    /\ savedSettings = DEFAULT_DISTANCE_SETTINGS
    /\ validationErrors = <<>>
    /\ isValid = TRUE
    /\ mounted = FALSE
    /\ lastOp = [op |-> "none", io |-> "none", accepted |-> FALSE,
                 pre |-> InitialHookState(storage), conn |-> FALSE,
                 effects |-> <<>>]
    /\ written = NeverWritten
    /\ loading = FALSE
    /\ user = "user"
    /\ lastAuth = [ev |-> "session", signedIn |-> TRUE,
                   wasMounted |-> FALSE, clientEnded |-> FALSE]
    /\ subs = subscriptionEffect(TRUE, "connected")
    /\ lastEvent = [ev |-> "connect", afterClose |-> FALSE]
    /\ sent = {}
    /\ lastCall = NoCall
    /\ logs = <<>>
    /\ clock = 0
    /\ logLoad = "idle"
    /\ clearing = NoClear
    /\ lastLog = NoLogOp

SpeedChangeAny == SpeedChangeOf(SLIDER_MIN..SLIDER_MAX)

LEDChangeAny == LEDChangeOf(SLIDER_MIN..SLIDER_MAX)

SliderNext ==
    \/ SpeedChangeAny
    \/ LEDChangeAny

SpecSlider == SliderInit /\ [][SliderNext]_vars

----------------------------------------------------------------------------
(* Properties of the settings lifecycle (Spec) *)

\* the value is a finite number within [MIN_ALLOWED, MAX_ALLOWED]
InRange(x) == x.k = "num" /\ MIN_ALLOWED <= x.v /\ x.v <= MAX_ALLOWED

EffectsOfKind(kind) ==
    {i \in 1..Len(lastOp.effects) : lastOp.effects[i].kind = kind}

SaveClicked == lastOp.op = "save"
ResetConfirmed == lastOp.op = "reset" /\ lastOp.accepted
Loaded == lastOp.op = "load"

\* C1: a click on save while the working value fails validation, or while
\* it equals the persisted value, changes nothing: no storage write, no
\* callback, and settings, savedSettings, the validity state and the stored
\* text are as before the click.
C1_SaveRejected ==
    (SaveClicked
        /\ (~validateDistanceSettings(lastOp.pre.settings).isValid
              \/ lastOp.pre.settings = lastOp.pre.savedSettings))
    => (lastOp.effects = <<>> /\ HookState = lastOp.pre)

\* C1 witness: a click with a valid, connected, unchanged working value was
\* turned down.
C1_Witness ==
    /\ SaveClicked
    /\ ~lastOp.accepted
    /\ lastOp.conn
    /\ lastOp.pre.isValid
    /\ lastOp.pre.settings = lastOp.pre.savedSettings
    /\ lastOp.pre.settings # DEFAULT_DISTANCE_SETTINGS

\* C2: an accepted save of working value s whose storage write succeeds
\* writes the text of autoCorrect(s), then hands autoCorrect(s) to the
\* change callback, and leaves settings = savedSettings = autoCorrect(s)
\* with no unsaved changes.
C2_SaveCommits ==
    (SaveClicked /\ lastOp.accepted /\ lastOp.io = "ok")
    => LET c == autoCorrectSettings(lastOp.pre.settings)
       IN  /\ Len(lastOp.effects) >= 2
           /\ lastOp.effects[1] = [kind |-> "write", val |-> JSONstringify(c)]
           /\ lastOp.effects[2] = [kind |-> "notify", val |-> c]
           /\ \A i \in EffectsOfKind("write") : i = 1
           /\ \A i \in EffectsOfKind("notify") : i = 2
           /\ \A i \in EffectsOfKind("publish") :
                  i > 1 /\ lastOp.effects[i].val = JSONstringify(c)
           /\ storage = JSONstringify(c)
           /\ settings = c
           /\ savedSettings = c
           /\ ~hasUnsavedChanges

\* C2 witness: an edited value was saved and published.
C2_Witness ==
    /\ SaveClicked
    /\ lastOp.accepted
    /\ lastOp.io = "ok"
    /\ lastOp.pre.settings # lastOp.pre.savedSettings
    /\ EffectsOfKind("publish") # {}
    /\ savedSettings = lastOp.pre.settings

\* C3 as claimed: after a confirmed reset the working value is the default,
\* passes validation, has been persisted, and equals the persisted value,
\* whether or not the storage write succeeded.
C3_ResetAlwaysClean ==
    ResetConfirmed
    => /\ settings = DEFAULT_DISTANCE_SETTINGS
       /\ validateDistanceSettings(settings).isValid
       /\ storage = JSONstringify(DEFAULT_DISTANCE_SETTINGS)
       /\ savedSettings = settings
       /\ ~hasUnsavedChanges

\* C3 amended: after a confirmed reset the working value is the default,
\* passes validation and is reported valid with no errors; when the storage
\* write succeeded the defaults are stored, savedSettings is the default and
\* nothing is unsaved; when the write failed the stored text and
\* savedSettings are as before the reset and the callback was not invoked.
C3_ResetToDefaults ==
    ResetConfirmed
    => /\ settings = DEFAULT_DISTANCE_SETTINGS
       /\ validateDistanceSettings(settings).isValid
       /\ isValid
       /\ validationErrors = <<>>
       /\ lastOp.io = "ok"
            => /\ storage = JSONstringify(DEFAULT_DISTANCE_SETTINGS)
               /\ savedSettings = DEFAULT_DISTANCE_SETTINGS
               /\ ~hasUnsavedChanges
               /\ EffectsOfKind("write") = {1}
       /\ lastOp.io = "fail"
            => /\ storage = lastOp.pre.storage
               /\ savedSettings = lastOp.pre.savedSettings
               /\ lastOp.effects = <<>>

\* C3 witness: a reset from the Invalid state with a successful write.
C3_Witness ==
    /\ ResetConfirmed
    /\ lastOp.io = "ok"
    /\ ~lastOp.pre.isValid
    /\ lastOp.pre.savedSettings # DEFAULT_DISTANCE_SETTINGS
    /\ savedSettings = DEFAULT_DISTANCE_SETTINGS

\* C4: when the storage write of an accepted save fails, settings,
\* savedSettings, isValid, validationErrors and the stored text are
\* unchanged, the edits are still unsaved, and the callback is not invoked.
C4_FailedSaveKeepsEdits ==
    (SaveClicked /\ lastOp.accepted /\ lastOp.io = "fail")
    => /\ HookState = lastOp.pre
       /\ hasUnsavedChanges
       /\ lastOp.effects = <<>>

\* C4 witness: the write of an accepted save failed.
C4_Witness ==
    /\ SaveClicked
    /\ lastOp.accepted
    /\ lastOp.io = "fail"
    /\ settings # savedSettings

\* the load could not use the stored text: the read threw, the text does
\* not parse to an object, or the corrected value fails validation
LoadFailed ==
    /\ Loaded
    /\ \/ lastOp.io = "fail"
       \/ lastOp.pre.storage.t \in {"garbage", "null"}
       \/ /\ lastOp.pre.storage.t = "obj"
          /\ ~validateDistanceSettings(
                 autoCorrectSettings(JSONparse(lastOp.pre.storage).value)).isValid

\* C5: after a failed load settings and savedSettings are the defaults, the
\* hook reports the working value as valid, and the defaults were handed to
\* the change callback.
C5_LoadFallsBack ==
    LoadFailed
    => /\ settings = DEFAULT_DISTANCE_SETTINGS
       /\ savedSettings = DEFAULT_DISTANCE_SETTINGS
       /\ isValid
       /\ validationErrors = <<>>
       /\ Len(lastOp.effects) >= 1
       /\ lastOp.effects[1] =
              [kind |-> "notify", val |-> DEFAULT_DISTANCE_SETTINGS]

\* C6: every settings value written to storage or handed to the change
\* callback, and every payload published, has a minDistance within
\* [MIN_ALLOWED, MAX_ALLOWED].
C6_OutputsInRange ==
    \A i \in 1..Len(lastOp.effects) :
        LET e == lastOp.effects[i]
        IN  /\ e.kind \in {"notify", "log"} => InRange(e.val.minDistance)
            /\ e.kind \in {"write", "publish"} => InRange(e.val.min)

----------------------------------------------------------------------------
(* Properties of the validation utilities (SpecPure) *)

Validated == pout.fn \in {"validate", "validateMulti"}

\* C7: validate classifies a minDistance that is NaN, negative or outside
\* [MIN_ALLOWED, MAX_ALLOWED] as invalid.
C7_ValidateRejectsBadNumbers ==
    (Validated /\ ~InRange(pin.minDistance)) => ~pout.r.isValid

\* m < s as a relation on numbers: never true of NaN
StrictlyLess(m, s) ==
    /\ m.k \in {"num", "inf"}
    /\ s.k \in {"num", "inf"}
    /\ m # s
    /\ (m.k = "inf" => m.v = -1 \/ (s.k = "inf" /\ s.v = 1 /\ m.v = -1))
    /\ (m.k = "num" /\ s.k = "inf" => s.v = 1)
    /\ (m.k = "num" /\ s.k = "num" => m.v < s.v)

\* s >= m * MIN_SAFE_RATIO as a relation on numbers: never true of NaN
AtLeastRatio(s, m) ==
    /\ m.k \in {"num", "inf"}
    /\ s.k \in {"num", "inf"}
    /\ (m.k = "num" /\ s.k = "num"
           => 10 * s.v >= MIN_SAFE_RATIO_TENTHS * m.v)
    /\ (m.k = "inf" /\ s.k = "num" => m.v = -1)
    /\ (m.k = "num" /\ s.k = "inf" => s.v = 1)
    /\ (m.k = "inf" /\ s.k = "inf" => s.v >= m.v)

\* the messages of the failing checks, in the order of the checks
ExpectedErrors(s, multi) ==
    (IF ~InRange(s.minDistance) THEN <<MsgMinRange>> ELSE <<>>)
    \o (IF multi /\ ~InRange(s.safeDistance) THEN <<MsgSafeRange>> ELSE <<>>)
    \o (IF multi /\ ~StrictlyLess(s.minDistance, s.safeDistance)
        THEN <<MsgMinLessSafe>> ELSE <<>>)
    \o (IF multi /\ ~AtLeastRatio(s.safeDistance, s.minDistance)
        THEN <<MsgSafeRatio(s.minDistance)>> ELSE <<>>)

\* C8: the errors of validate are exactly the messages of the failing
\* checks, one per failing check and in the order of the checks, and
\* isValid is true iff there is none.
C8_ValidateErrors ==
    Validated
    => /\ pout.r.errors = ExpectedErrors(pin, pout.fn = "validateMulti")
       /\ pout.r.isValid <=> (pout.r.errors = <<>>)

\* C9: for finite x, sanitize(x) is x within [MIN_ALLOWED, MAX_ALLOWED],
\* MIN_ALLOWED below it and MAX_ALLOWED above it.
C9_SanitizeClamps ==
    (pout.fn = "sanitize" /\ IsFinite(pin.minDistance))
    => LET x == pin.minDistance.v
       IN  /\ pout.r.k = "num"
           /\ (MIN_ALLOWED <= x /\ x <= MAX_ALLOWED) => pout.r.v = x
           /\ x < MIN_ALLOWED => pout.r.v = MIN_ALLOWED
           /\ x > MAX_ALLOWED => pout.r.v = MAX_ALLOWED
           /\ InRange(pout.r)

\* C9 witness: sanitize saturated a value above MAX_ALLOWED.
C9_Witness ==
    /\ pout.fn = "sanitize"
    /\ IsFinite(pin.minDistance)
    /\ pin.minDistance.v > MAX_ALLOWED
    /\ pout.r = Num(MAX_ALLOWED)

\* C10: for finite fields, autoCorrect applied to its own result returns
\* that result, in the single-field and in the multi-field variant.
C10_AutoCorrectIdempotent ==
    (/\ pout.fn \in {"autoCorrectTwice", "autoCorrectMultiTwice"}
     /\ IsFinite(pin.minDistance)
     /\ IsFinite(pin.safeDistance)
     /\ IsFinite(pin.maxDistance))
    => pout.r.second = pout.r.first

FiniteInput ==
    /\ IsFinite(pin.minDistance)
    /\ IsFinite(pin.safeDistance)
    /\ IsFinite(pin.maxDistance)

\* C11: for finite fields, the result of the multi-field autoCorrect has
\* safeDistance strictly greater than minDistance.
C11_SafeAboveMin ==
    (pout.fn = "autoCorrectMulti" /\ FiniteInput)
    => /\ IsFinite(pout.r.minDistance)
       /\ IsFinite(pout.r.safeDistance)
       /\ pout.r.safeDistance.v > pout.r.minDistance.v

\* C11 witness: autoCorrect repaired an input whose safeDistance was not
\* above its minDistance.
C11_Witness ==
    /\ pout.fn = "autoCorrectMulti"
    /\ FiniteInput
    /\ pin.safeDistance.v <= pin.minDistance.v
    /\ InRange(pin.minDistance)
    /\ pout.r.safeDistance = Num(pin.minDistance.v + REPAIR_MARGIN)

\* the saturating clamp of a finite number, stated on the integers
Clamped(x) ==
    IF x.v < MIN_ALLOWED THEN Num(MIN_ALLOWED)
    ELSE IF x.v > MAX_ALLOWED THEN Num(MAX_ALLOWED)
    ELSE x

\* C12: the result of autoCorrect carries every field of its variant, each
\* sanitized: minDistance in the single-field variant; minDistance,
\* safeDistance and maxDistance in the multi-field variant.
C12_FullyPopulated ==
    /\ (pout.fn = "autoCorrect" /\ FiniteInput)
         => pout.r.minDistance = Clamped(pin.minDistance)
    /\ (pout.fn = "autoCorrectMulti" /\ FiniteInput)
         => /\ pout.r.minDistance = Clamped(pin.minDistance)
            /\ InRange(pout.r.safeDistance)
            /\ pout.r.maxDistance = Clamped(pin.maxDistance)

\* C13: when the multi-field autoCorrect repairs an in-range value whose
\* minDistance is not below its safeDistance, the result has
\* safeDistance = minDistance + 10 and passes validate.
C13_RepairedValidates ==
    (/\ pout.fn = "validateCorrectedMulti"
     /\ InRange(pin.minDistance)
     /\ InRange(pin.safeDistance)
     /\ InRange(pin.maxDistance)
     /\ pin.minDistance.v >= pin.safeDistance.v)
    => /\ pout.r.corrected.safeDistance
              = Num(pin.minDistance.v + REPAIR_MARGIN)
       /\ pout.r.validation.isValid

C15_ValidityTracksWorking ==
    mounted
    => /\ isValid = validateDistanceSettings(settings).isValid
       /\ validationErrors = validateDistanceSettings(settings).errors

Clean(h) == JSONstringify(h.settings) = JSONstringify(h.savedSettings)

EditAccepted == lastOp.op = "edit" /\ lastOp.accepted

\* C16 as stated: every call of updateSettings in a Clean state ends in a
\* Dirty state.
C16_AnyEditDirties ==
    (EditAccepted /\ Clean(lastOp.pre)) => hasUnsavedChanges

\* C16: a call of updateSettings in a Clean state ends in a Dirty state
\* exactly when the new value serializes differently from the persisted
\* value; the persisted value is left as it was.
C16_EditDirtiesWhenDifferent ==
    (EditAccepted /\ Clean(lastOp.pre))
    => /\ savedSettings = lastOp.pre.savedSettings
       /\ hasUnsavedChanges
            <=> JSONstringify(settings)
                    # JSONstringify(lastOp.pre.savedSettings)

\* C16 witness: an edit in a Clean state entered another value and the
\* state is Dirty.
C16_Witness ==
    /\ EditAccepted
    /\ Clean(lastOp.pre)
    /\ settings # lastOp.pre.settings
    /\ hasUnsavedChanges

\* C17: when the connection comes up after settings were persisted while
\* it was down, the load effect publishes the persisted settings.
C17_PublishedOnConnect ==
    (/\ lastOp.op = "load"
     /\ lastOp.conn
     /\ written.by # "none"
     /\ ~written.conn)
    => \E i \in DOMAIN lastOp.effects :
          /\ lastOp.effects[i].kind = "publish"
          /\ lastOp.effects[i].val = written.text

\* C17 witness: defaults persisted by a reset while disconnected were
\* published by the load that followed the connect event.
C17_Witness ==
    /\ lastOp.op = "load"
    /\ lastOp.conn
    /\ lastOp.io = "ok"
    /\ written.by = "reset"
    /\ ~written.conn
    /\ EffectsOfKind("publish") # {}

ManualTopics ==
    {MQTT_TOPICS.CONTROL, MQTT_TOPICS.SPEED, MQTT_TOPICS.FLASH}

\* C18: a UI event handled while the autonomous flag is on publishes no
\* move, speed or flash command; a click of the autonomous button while
\* the connection is up publishes the new mode on the autonomous topic.
C18_AutonomousBlocksManual ==
    /\ lastCmd.auto
         => \A i \in DOMAIN lastCmd.published :
               lastCmd.published[i].topic \notin ManualTopics
    /\ (lastCmd.ev = "toggle" /\ lastCmd.conn)
         => lastCmd.published
              = <<[topic |-> MQTT_TOPICS.AUTONOMOUS,
                   message |-> Text(IF lastCmd.auto THEN "off" ELSE "on")]>>

\* C18 witness: a manual handler ran while autonomous and connected, and
\* published nothing.
C18_Witness ==
    /\ lastCmd.auto
    /\ lastCmd.conn
    /\ lastCmd.ev \in {"flash", "direction"}
    /\ lastCmd.ran
    /\ lastCmd.published = <<>>

\* n is the integer nearest to num / den, a half rounded up
Nearest(n, num, den) ==
    /\ 2 * (den * n - num) <= den
    /\ 2 * (num - den * n) < den

\* C19: a speed slider position v in 0..100 is published on the speed
\* topic as round(100 + v * 155 / 100), within 100..255, 100 at 0 and 255
\* at 100; a flash slider position v is published on the flash topic as
\* round(v * 255 / 100), within 0..255.
C19_SliderConversion ==
    /\ (lastCmd.ev = "speed" /\ lastCmd.ran)
         => \E n \in SPEED_PWM_MIN..(SPEED_PWM_MIN + SPEED_PWM_SPAN) :
               /\ lastCmd.published
                    = <<[topic |-> MQTT_TOPICS.SPEED,
                         message |-> Text(ToString(n))]>>
               /\ Nearest(n, 100 * SPEED_PWM_MIN
                                 + lastCmd.arg * SPEED_PWM_SPAN, 100)
               /\ lastCmd.arg = SLIDER_MIN => n = SPEED_PWM_MIN
               /\ lastCmd.arg = SLIDER_MAX
                    => n = SPEED_PWM_MIN + SPEED_PWM_SPAN
    /\ (lastCmd.ev = "flash" /\ lastCmd.ran)
         => \E n \in 0..FLASH_PWM_MAX :
               /\ lastCmd.published
                    = <<[topic |-> MQTT_TOPICS.FLASH,
                         message |-> Text(ToString(n))]>>
               /\ Nearest(n, lastCmd.arg * FLASH_PWM_MAX, 100)

\* C19 witness: a flash position whose scaled value lies exactly between
\* two integers was published rounded up.
C19_Witness ==
    /\ lastCmd.ev = "flash"
    /\ lastCmd.ran
    /\ lastCmd.arg = 10
    /\ lastCmd.published
         = <<[topic |-> MQTT_TOPICS.FLASH, message |-> Text("26")]>>

\* C20: after an error event the client is left to reconnect: while the
\* status is 'error', or 'disconnected' with the hook mounted, the client
\* has not been ended, so a reconnect event brings the status back to
\* 'connecting'.
C20_ReconnectsAfterError ==
    (client # "none" /\ connectionStatus \in {"error", "disconnected"})
    => client \notin {"ending", "ended"}

\* C21: while authentication is loading or no user is signed in there is
\* no controller and no MQTT client, so nothing is published; a session
\* event without user unmounts a mounted controller, ends its client and
\* clears the reference.
C21_ControllerNeedsUser ==
    /\ (loading \/ user = "none")
         => /\ client = "none"
            /\ ~isConnected
            /\ lastCmd = NoCmd
            /\ subs = {}
    /\ (lastAuth.ev = "session" /\ ~lastAuth.signedIn /\ lastAuth.wasMounted)
         => lastAuth.clientEnded

\* C21 witness: a sign-out unmounted a controller that was mounted.
C21_Witness ==
    /\ lastAuth.ev = "session"
    /\ ~lastAuth.signedIn
    /\ lastAuth.wasMounted
    /\ lastAuth.clientEnded
    /\ client = "none"

\* C22: a call of publish or subscribe made while the client is absent or
\* not connected is never handed to the client, neither at the call nor
\* after the connection returns.
C22_DroppedUnlessConnected ==
    /\ \A call \in sent : call.at = "connected"
    /\ (lastCall.fn # "none" /\ lastCall.at # "connected")
         => lastCall \notin sent

\* C22 witness: a publish made while the client was offline is still
\* unsent after the client connected again.
C22_Witness ==
    /\ lastCall.fn = "publish"
    /\ lastCall.at = "offline"
    /\ client = "connected"
    /\ lastCall \notin sent

InboundTopics ==
    {MQTT_TOPICS.CAMERA, MQTT_TOPICS.STATUS, MQTT_TOPICS.LOG,
     MQTT_TOPICS.SENSOR_DISTANCE}

\* C23: whenever the client is connected, after the initial connect and
\* after every reconnect, the four inbound topics are subscribed on that
\* connection.
C23_SubscribedOnConnect ==
    client = "connected" => InboundTopics \subseteq subs

\* C23 witness: the client connected again after a close and the four
\* topics are subscribed.
C23_Witness ==
    /\ client = "connected"
    /\ lastEvent = [ev |-> "connect", afterClose |-> TRUE]
    /\ InboundTopics \subseteq subs

\* C26: isConnected is true exactly when connectionStatus is 'connected'.
C26_ConnectedIffStatus ==
    isConnected <=> connectionStatus = "connected"

\* C26 witness: a reconnect event after a close left the status at
\* 'connecting' with isConnected false.
C26_Witness ==
    /\ lastEvent = [ev |-> "reconnect", afterClose |-> TRUE]
    /\ connectionStatus = "connecting"
    /\ ~isConnected

\* C24: the log list never holds more than 100 entries and is ordered
\* newest first; a received entry is placed at the head of the earlier
\* list, whose entries beyond the first 99 are dropped.
C24_LogsBoundedNewestFirst ==
    /\ Len(logs) <= LOG_LIMIT
    /\ \A i, j \in DOMAIN logs : i < j => logs[i].t >= logs[j].t
    /\ lastLog.op = "message"
         => /\ logs[1] = lastLog.entry
            /\ \A i \in 2..Len(logs) : logs[i] = lastLog.pre[i - 1]
            /\ Len(logs) = IF Len(lastLog.pre) < LOG_LIMIT
                           THEN Len(lastLog.pre) + 1 ELSE LOG_LIMIT

\* C24 witness: an entry was received on a full list and the oldest entry
\* was dropped.
C24_Witness ==
    /\ lastLog.op = "message"
    /\ Len(lastLog.pre) = LOG_LIMIT
    /\ Len(logs) = LOG_LIMIT
    /\ lastLog.pre[LOG_LIMIT] \notin Range(logs)

\* C25: when the delete of a clear request has answered, with success,
\* with a failure or by throwing, the list is empty; when the timeout of a
\* successful request fires, the list holds the clear entry alone.
C25_ClearEmptiesList ==
    /\ lastLog.op = "clearResolved" => logs = <<>>
    /\ lastLog.op = "clearTimer"
         => /\ Len(logs) = 1
            /\ logs[1].message = CLEAR_MESSAGE

\* C25 witness: the delete of a clear request failed and the entries on
\* display are gone.
C25_Witness ==
    /\ lastLog.op = "clearResolved"
    /\ lastLog.entry = "failure"
    /\ lastLog.pre # <<>>
    /\ logs = <<>>

====
